---- MODULE Spec2Model ----
(***************************************************************************)
(* Model of src/utils/streakCorrection.ts: correctExistingStreakCounts,    *)
(* the one-time job that zeroes stale streak counters in the               *)
(* child_progress table.                                                   *)
(*                                                                         *)
(* Time.  A Date is an integer number of clock ticks since the epoch, in   *)
(* local time, TicksPerDay ticks to the day (tick 0 of a day is local      *)
(* midnight).  A stored last_check_in is an ISO string, modelled by its    *)
(* parsed fields: <<>> is null, <<d>> is the date-only form "YYYY-MM-DD",  *)
(* <<d, t>> is the date-time form "YYYY-MM-DDTHH:mm".                      *)
(***************************************************************************)
EXTENDS Integers, Sequences, FiniteSets, TLC

TicksPerDay == 2
MaxDay == 2
MaxStreak == 1

Children == {"A", "B"}
SeqJobs == {"j1"}
Jobs == {"j1", "j2"}

VARIABLES child_progress, now, pc, childProgress, fetchError, today,
          childrenToUpdate, updateCall, result, readCalls, writeCalls,
          before, previous

\* the parent service (parentService, lines 188-431 of part_000): the parents
\* table, the parent cache and its error locks, the auth session, the calls
\* in flight
VARIABLES parents, parentCache, errorLock, session, calls

\* ChildProfilesTab: the component's life, the user of its context, its
\* refs and state, its effect and its handlers in flight; effectFetches and
\* handled record what the effect and the handlers did
VARIABLES mounted, user, effect, componentMounted, hasInitialFetch,
          fetchInProgress, fetchProfiles, deleteDialogOpen, profileToDelete,
          confirmDelete, editChildRelationship, relationshipValue,
          handleSaveRelationship, effectFetches, handled

jobVars == <<child_progress, now, pc, childProgress, fetchError, today,
             childrenToUpdate, updateCall, result, readCalls, writeCalls,
             before, previous>>

parentVars == <<parents, parentCache, errorLock, session, calls>>

tabVars == <<mounted, user, effect, componentMounted, hasInitialFetch,
             fetchInProgress, fetchProfiles, deleteDialogOpen, profileToDelete,
             confirmDelete, editChildRelationship, relationshipValue,
             handleSaveRelationship, effectFetches, handled>>

nonJobVars == <<parentVars, tabVars>>

vars == <<jobVars, parentVars, tabVars>>

----------------------------------------------------------------------------
(* date-fns *)

Sign(n) == IF n < 0 THEN -1 ELSE IF n > 0 THEN 1 ELSE 0

Abs(n) == IF n < 0 THEN -n ELSE n

parseISO(s) == IF Len(s) = 1 THEN s[1] * TicksPerDay
               ELSE s[1] * TicksPerDay + s[2]

startOfDay(d) == d - (d % TicksPerDay)

differenceInCalendarDays(dateLeft, dateRight) ==
    (startOfDay(dateLeft) - startOfDay(dateRight)) \div TicksPerDay

compareLocalAsc(dateLeft, dateRight) == Sign(dateLeft - dateRight)

differenceInDays(dateLeft, dateRight) ==
    LET sign == compareLocalAsc(dateLeft, dateRight)
        difference == Abs(differenceInCalendarDays(dateLeft, dateRight))
        shifted == dateLeft - sign * difference * TicksPerDay
        isLastDayNotFull ==
            IF compareLocalAsc(shifted, dateRight) = -sign /\ sign # 0
            THEN 1 ELSE 0
    IN  sign * (difference - isLastDayNotFull)

\* parseISO yields a valid Date
isValid(s) == Len(s) = 1 \/ s[2] < TicksPerDay

isSameDay(dateLeft, dateRight) == startOfDay(dateLeft) = startOfDay(dateRight)

isYesterdayOf(date, nowDate) ==
    startOfDay(date) = startOfDay(nowDate) - TicksPerDay

----------------------------------------------------------------------------
(* the child_progress table and the two queries the job sends to it *)

Null == <<>>

IsoStrings == {<<d>> : d \in 0..MaxDay}
              \cup {<<d, t>> : d \in 0..MaxDay, t \in 0..(TicksPerDay - 1)}

\* strings that parseISO turns into an Invalid Date: an hour out of range
MalformedStrings == {<<d, TicksPerDay>> : d \in 0..MaxDay}

RowData == [last_check_in : IsoStrings \cup {Null}, streak_count : 0..MaxStreak]

RowDataMalformed ==
    [last_check_in : IsoStrings \cup MalformedStrings \cup {Null},
     streak_count : 0..MaxStreak]

MaxNow == (MaxDay + 1) * TicksPerDay - 1

ErrorMessages == {"network error"}

Thrown == {[isError |-> TRUE, message |-> "Failed to fetch"],
           [isError |-> FALSE, message |-> ""]}

Ids(rows) == {r.child_id : r \in rows}

RowOf(table, c) == CHOOSE r \in table : r.child_id = c

SelectAllRows(table) == table

\* .from('child_progress').select('*').gt('streak_count', 0)
SelectGtStreak(table) == {r \in table : r.streak_count > 0}

UpdateAllRows(table, ids) == {[r EXCEPT !.streak_count = 0] : r \in table}

UpdateStreakAndCheckIn(table, ids) ==
    {IF r.child_id \in ids
     THEN [r EXCEPT !.streak_count = 0, !.last_check_in = Null]
     ELSE r : r \in table}

\* .from('child_progress').update({ streak_count: 0 }).in('child_id', ids)
UpdateStreakIn(table, ids) ==
    {IF r.child_id \in ids THEN [r EXCEPT !.streak_count = 0] ELSE r : r \in table}

UpdateAppliedToOne(table, ids) ==
    UpdateStreakIn(table, {CHOOSE c \in ids : TRUE})

\* the same statement when the store rejects it: one statement, nothing applied
UpdateRejected(table, ids) == table

\* the orders in which the store may return a set of rows
Orderings(rows) ==
    {s \in [1..Cardinality(rows) -> rows] : \A r \in rows : \E i \in DOMAIN s : s[i] = r}

Range(s) == {s[i] : i \in DOMAIN s}

----------------------------------------------------------------------------
(* the classification loop, lines 34-58 *)

daysElapsed(todayDate, child) ==
    differenceInDays(startOfDay(todayDate), parseISO(child.last_check_in))

NeedsResetNoNullCheck(todayDate, child) ==
    child.last_check_in # Null /\ daysElapsed(todayDate, child) > 1

NeedsResetFromOneDay(todayDate, child) ==
    \/ child.last_check_in = Null
    \/ daysElapsed(todayDate, child) >= 1

NeedsReset(todayDate, child) ==
    \/ child.last_check_in = Null
    \/ daysElapsed(todayDate, child) > 1

\* line 46: lastCheckInDate.toISOString() throws a RangeError on an Invalid Date
NeverThrows(child) == FALSE

toISOStringThrows(child) ==
    child.last_check_in # Null /\ ~isValid(child.last_check_in)

\* the rows the loop handles before the first one it throws on
RECURSIVE BeforeThrow(_)
BeforeThrow(rows) ==
    IF rows = <<>> \/ toISOStringThrows(Head(rows)) THEN <<>>
    ELSE <<Head(rows)>> \o BeforeThrow(Tail(rows))

LoopThrows(rows) == \E i \in DOMAIN rows : toISOStringThrows(rows[i])

RangeError == [isError |-> TRUE, message |-> "Invalid time value"]

RECURSIVE Classify(_, _)
Classify(todayDate, rows) ==
    IF rows = <<>> THEN <<>>
    ELSE LET child == Head(rows)
             rest == Classify(todayDate, Tail(rows))
         IN  IF NeedsReset(todayDate, child)
             THEN <<child.child_id>> \o rest
             ELSE rest

----------------------------------------------------------------------------
NoResult == [returned |-> FALSE]

\* today (line 30) before the run reaches it
NotYet == -1

\* what the run before the current one returned
NoPrevious == [success |-> FALSE, today |-> NotYet, resetChildren |-> {}]

\* line 23
FetchFailureIgnored(m) ==
    [success |-> TRUE, message |-> <<"No streak count corrections needed">>]

FetchFailureResult(m) == [success |-> FALSE, error |-> m]

\* line 63
ShouldUpdateAlways(toUpdate) == TRUE

ShouldUpdate(toUpdate) == Len(toUpdate) > 0

\* line 72
UpdateFailureResult(m) == [success |-> FALSE, error |-> m]

\* lines 76-80
UpdateSuccessResult(toUpdate) ==
    [success |-> TRUE,
     message |-> <<"Reset streak counts for children who missed check-ins",
                   Len(toUpdate)>>,
     resetChildren |-> toUpdate]

\* line 83
NoCorrectionsResult ==
    [success |-> TRUE, message |-> <<"No streak count corrections needed">>]

\* lines 86-89
CatchResult(e) ==
    [success |-> FALSE,
     error |-> IF e.isError THEN e.message ELSE "Unknown error occurred"]

\* the parent service before any call: nothing cached, no lock, no session
Users == {"u1", "u2"}

Names == {"Ann", "Bob"}

\* a missing argument or field (undefined, empty string)
Missing == ""

\* null: no row, no cached info, no session
Nul == "null"

\* the calls that can be in flight together: any of the three functions in
\* k1, and a fetchParentInfoById of another caller in k2
Slots == {"k1", "k2"}

WriteSlots == {"k1"}

IdleCall == [op |-> "none", pc |-> "idle", userId |-> Missing, name |-> Missing,
             ret |-> Missing, outcome |-> Missing]

ParentIdle ==
    /\ parents = [u \in Users |-> Nul]
    /\ parentCache = [u \in Users |-> Nul]
    /\ errorLock = {}
    /\ session = Nul
    /\ calls = [k \in Slots |-> IdleCall]

Profiles == {"p1", "p2"}

Relationships == {"mother"}

MaxEffectFetches == 2

NoHandler == [pc |-> "idle", user |-> Nul]

NotHandled == [op |-> "none", ok |-> FALSE, mountedThen |-> FALSE,
               hadUser |-> FALSE, refreshed |-> FALSE]

\* lines 19-27: the state and the refs of a new component
TabFresh ==
    /\ effect = [pending |-> TRUE, ran |-> FALSE]
    /\ componentMounted = TRUE
    /\ hasInitialFetch = FALSE
    /\ fetchInProgress = FALSE
    /\ fetchProfiles = "idle"
    /\ deleteDialogOpen = FALSE
    /\ profileToDelete = Nul
    /\ confirmDelete = NoHandler
    /\ editChildRelationship = Nul
    /\ relationshipValue = ""
    /\ handleSaveRelationship = NoHandler
    /\ effectFetches = 0
    /\ handled = NotHandled

\* the component is not rendered
TabIdle ==
    /\ mounted = FALSE
    /\ user = Nul
    /\ TabFresh

InitWith(rowData) ==
    /\ ParentIdle
    /\ TabIdle
    /\ now \in 0..MaxNow
    /\ \E S \in SUBSET Children :
         \E f \in [S -> rowData] :
            /\ \A c \in S : f[c].last_check_in # Null
                              => parseISO(f[c].last_check_in) <= now
            /\ child_progress =
                 {[child_id |-> c, last_check_in |-> f[c].last_check_in,
                   streak_count |-> f[c].streak_count] : c \in S}
    /\ pc = [j \in Jobs |-> "idle"]
    /\ childProgress = [j \in Jobs |-> <<>>]
    /\ fetchError = [j \in Jobs |-> ""]
    /\ today = [j \in Jobs |-> NotYet]
    /\ childrenToUpdate = [j \in Jobs |-> <<>>]
    /\ updateCall = [j \in Jobs |-> {}]
    /\ result = [j \in Jobs |-> NoResult]
    /\ readCalls = [j \in Jobs |-> 0]
    /\ writeCalls = [j \in Jobs |-> 0]
    /\ before = [j \in Jobs |-> {}]
    /\ previous = NoPrevious

Init == InitWith(RowData)

\* the job never invoked, over an empty table
JobIdle ==
    /\ now = 0
    /\ child_progress = {}
    /\ pc = [j \in Jobs |-> "idle"]
    /\ childProgress = [j \in Jobs |-> <<>>]
    /\ fetchError = [j \in Jobs |-> ""]
    /\ today = [j \in Jobs |-> NotYet]
    /\ childrenToUpdate = [j \in Jobs |-> <<>>]
    /\ updateCall = [j \in Jobs |-> {}]
    /\ result = [j \in Jobs |-> NoResult]
    /\ readCalls = [j \in Jobs |-> 0]
    /\ writeCalls = [j \in Jobs |-> 0]
    /\ before = [j \in Jobs |-> {}]
    /\ previous = NoPrevious

\* some stored last_check_in strings do not parse
InitMalformed == InitWith(RowDataMalformed)

\* the wall clock advances
Tick ==
    /\ UNCHANGED nonJobVars
    /\ now < MaxNow
    /\ now' = now + 1
    /\ UNCHANGED <<child_progress, pc, childProgress, fetchError, today,
                   childrenToUpdate, updateCall, result, readCalls,
                   writeCalls, before, previous>>

Return(j, r) ==
    /\ pc' = [pc EXCEPT ![j] = "done"]
    /\ result' = [result EXCEPT ![j] = r]

\* lines 11-19: the job is invoked and sends the filtered read
Invoke(j) ==
    /\ UNCHANGED nonJobVars
    /\ pc[j] \in {"idle", "done"}
    /\ pc' = [pc EXCEPT ![j] = "fetching"]
    /\ childProgress' = [childProgress EXCEPT ![j] = <<>>]
    /\ fetchError' = [fetchError EXCEPT ![j] = ""]
    /\ childrenToUpdate' = [childrenToUpdate EXCEPT ![j] = <<>>]
    /\ updateCall' = [updateCall EXCEPT ![j] = {}]
    /\ result' = [result EXCEPT ![j] = NoResult]
    /\ readCalls' = [readCalls EXCEPT ![j] = 1]
    /\ writeCalls' = [writeCalls EXCEPT ![j] = 0]
    /\ before' = [before EXCEPT ![j] = child_progress]
    /\ today' = [today EXCEPT ![j] = NotYet]
    /\ previous' = IF pc[j] = "done"
                   THEN [success |-> result[j].success,
                         today |-> today[j],
                         resetChildren |->
                            IF "resetChildren" \in DOMAIN result[j]
                            THEN Range(result[j].resetChildren) ELSE {}]
                   ELSE NoPrevious
    /\ UNCHANGED <<child_progress, now>>

\* lines 16-19: the store answers the read with the matching rows
FetchOk(j) ==
    /\ UNCHANGED nonJobVars
    /\ pc[j] = "fetching"
    /\ \E rows \in Orderings(SelectGtStreak(child_progress)) :
          childProgress' = [childProgress EXCEPT ![j] = rows]
    /\ pc' = [pc EXCEPT ![j] = "fetched"]
    /\ UNCHANGED <<child_progress, now, fetchError, today, childrenToUpdate,
                   updateCall, result, readCalls, writeCalls, before, previous>>

\* lines 21-24: the store answers the read with an error
FetchError(j) ==
    /\ UNCHANGED nonJobVars
    /\ pc[j] = "fetching"
    /\ \E m \in ErrorMessages :
          /\ fetchError' = [fetchError EXCEPT ![j] = m]
          /\ Return(j, FetchFailureResult(m))
    /\ UNCHANGED <<child_progress, now, childProgress, today, childrenToUpdate,
                   updateCall, readCalls, writeCalls, before, previous>>

\* lines 84-90: an awaited store call rejects
Catch(j) ==
    /\ UNCHANGED nonJobVars
    /\ pc[j] \in {"fetching", "updating"}
    /\ \E e \in Thrown :
          Return(j, CatchResult(e))
    /\ child_progress' = IF pc[j] = "updating"
                         THEN UpdateRejected(child_progress, updateCall[j])
                         ELSE child_progress
    /\ UNCHANGED <<now, childProgress, fetchError, today,
                   childrenToUpdate, updateCall, readCalls, writeCalls,
                   before, previous>>

\* lines 26-68 and 83: classify the rows read, then send the batched update
\* or return
ClassifyRows(j) ==
    /\ UNCHANGED nonJobVars
    /\ pc[j] = "fetched"
    /\ ~LoopThrows(childProgress[j])
    /\ today' = [today EXCEPT ![j] = now]
    /\ LET toUpdate == Classify(now, childProgress[j])
       IN  /\ childrenToUpdate' = [childrenToUpdate EXCEPT ![j] = toUpdate]
           /\ IF ShouldUpdate(toUpdate)
              THEN /\ pc' = [pc EXCEPT ![j] = "updating"]
                   /\ updateCall' = [updateCall EXCEPT ![j] = Range(toUpdate)]
                   /\ writeCalls' = [writeCalls EXCEPT ![j] = @ + 1]
                   /\ UNCHANGED result
              ELSE /\ Return(j, NoCorrectionsResult)
                   /\ UNCHANGED <<updateCall, writeCalls>>
    /\ UNCHANGED <<child_progress, now, childProgress, fetchError, readCalls,
                   before, previous>>

\* lines 26-50 and 84-90: the loop throws while logging a row whose
\* last_check_in is an Invalid Date; the catch returns the failure
ClassifyThrows(j) ==
    /\ UNCHANGED nonJobVars
    /\ pc[j] = "fetched"
    /\ LoopThrows(childProgress[j])
    /\ today' = [today EXCEPT ![j] = now]
    /\ childrenToUpdate' = [childrenToUpdate EXCEPT ![j] =
                               Classify(now, BeforeThrow(childProgress[j]))]
    /\ Return(j, CatchResult(RangeError))
    /\ UNCHANGED <<child_progress, now, childProgress, fetchError, updateCall,
                   readCalls, writeCalls, before, previous>>

\* lines 65-80: the store applies the batched update
UpdateOk(j) ==
    /\ UNCHANGED nonJobVars
    /\ pc[j] = "updating"
    /\ child_progress' = UpdateStreakIn(child_progress, updateCall[j])
    /\ Return(j, UpdateSuccessResult(childrenToUpdate[j]))
    /\ UNCHANGED <<now, childProgress, fetchError, today, childrenToUpdate,
                   updateCall, readCalls, writeCalls, before, previous>>

\* lines 70-73: the store rejects the batched update
UpdateError(j) ==
    /\ UNCHANGED nonJobVars
    /\ pc[j] = "updating"
    /\ \E m \in ErrorMessages :
          Return(j, UpdateFailureResult(m))
    /\ child_progress' = UpdateRejected(child_progress, updateCall[j])
    /\ UNCHANGED <<now, childProgress, fetchError, today,
                   childrenToUpdate, updateCall, readCalls, writeCalls,
                   before, previous>>

correctExistingStreakCounts(j) ==
    \/ Invoke(j)
    \/ FetchOk(j)
    \/ FetchError(j)
    \/ ClassifyRows(j)
    \/ UpdateOk(j)
    \/ UpdateError(j)
    \/ Catch(j)

Next ==
    \/ Tick
    \/ \E j \in SeqJobs : correctExistingStreakCounts(j)

Spec == Init /\ [][Next]_vars

\* the same job over a table in which some last_check_in strings do not parse
NextMalformed ==
    \/ Tick
    \/ \E j \in SeqJobs : correctExistingStreakCounts(j)
    \/ \E j \in SeqJobs : ClassifyThrows(j)

SpecMalformed == InitMalformed /\ [][NextMalformed]_vars

\* one invocation per job, so that two invocations overlap
InvokeOnce(j) == pc[j] = "idle" /\ Invoke(j)

\* a failed store call is an error answer here; a rejected await (Catch)
\* leaves the table the same way
RunOnce(j) ==
    \/ InvokeOnce(j)
    \/ FetchOk(j)
    \/ FetchError(j)
    \/ ClassifyRows(j)
    \/ UpdateOk(j)
    \/ UpdateError(j)

\* the clock advances within the day: both invocations see the same today
TickSameDay == isSameDay(now, now + 1) /\ Tick

NextConcurrent ==
    \/ TickSameDay
    \/ \E j \in Jobs : RunOnce(j)

SpecConcurrent == Init /\ [][NextConcurrent]_vars

\* the daily check-in flow records a check-in of child c at the current time
CheckInStreak(table, c, at) ==
    IF c \notin Ids(table) THEN 1
    ELSE LET r == RowOf(table, c)
         IN  IF r.last_check_in = Null THEN 1
             ELSE IF isSameDay(parseISO(r.last_check_in), at)
                  THEN (IF r.streak_count = 0 THEN 1 ELSE r.streak_count)
             ELSE IF isYesterdayOf(parseISO(r.last_check_in), at)
                       /\ r.streak_count < MaxStreak
                  THEN r.streak_count + 1
             ELSE IF isYesterdayOf(parseISO(r.last_check_in), at)
                  THEN r.streak_count
             ELSE 1

CheckIn(c) ==
    /\ UNCHANGED nonJobVars
    /\ child_progress' =
          {r \in child_progress : r.child_id # c}
          \cup {[child_id |-> c,
                  last_check_in |-> <<now \div TicksPerDay, now % TicksPerDay>>,
                  streak_count |-> CheckInStreak(child_progress, c, now)]}
    /\ child_progress' # child_progress
    /\ UNCHANGED <<now, pc, childProgress, fetchError, today,
                   childrenToUpdate, updateCall, result, readCalls,
                   writeCalls, before, previous>>

NextCheckIn ==
    \/ Tick
    \/ \E j \in SeqJobs : RunOnce(j)
    \/ \E j \in SeqJobs : Catch(j)
    \/ \E c \in Children : CheckIn(c)

SpecCheckIn == Init /\ [][NextCheckIn]_vars

TypeOK ==
    /\ now \in 0..MaxNow
    /\ \A r \in child_progress : r.streak_count \in 0..MaxStreak
    /\ \A j \in Jobs : pc[j] \in {"idle", "fetching", "fetched", "updating", "done"}

----------------------------------------------------------------------------
(* vocabulary of the properties *)

Succeeded(j) == pc[j] = "done" /\ result[j].success

\* the run of j got past the read (line 30 was reached)
ReadSucceeded(j) == today[j] # NotYet

HasResetChildren(j) == "resetChildren" \in DOMAIN result[j]

ResetChildren(j) ==
    IF HasResetChildren(j) THEN Range(result[j].resetChildren) ELSE {}

\* midnight-aligned calendar days from last_check_in to the run's today
CalendarDaysSince(j, r) ==
    differenceInCalendarDays(today[j], parseISO(r.last_check_in))

TodayOrYesterday(j, r) ==
    /\ r.last_check_in # Null
    /\ \/ isSameDay(parseISO(r.last_check_in), today[j])
       \/ isYesterdayOf(parseISO(r.last_check_in), today[j])

StreakNow(c) == RowOf(child_progress, c).streak_count

\* C1: after a successful run every record that had streak_count > 0 and a
\* last_check_in more than one calendar day before today has streak_count 0
C1_StaleStreaksReset ==
    \A j \in SeqJobs :
       Succeeded(j) =>
          \A r \in before[j] :
             (/\ r.streak_count > 0
              /\ r.last_check_in # Null
              /\ CalendarDaysSince(j, r) > 1)
             => StreakNow(r.child_id) = 0

\* C2: after a successful run every record that had streak_count > 0 and no
\* last_check_in has streak_count 0 and is listed in resetChildren
C2_AbsentCheckInReset ==
    \A j \in SeqJobs :
       Succeeded(j) =>
          \A r \in before[j] :
             (r.streak_count > 0 /\ r.last_check_in = Null)
             => /\ StreakNow(r.child_id) = 0
                /\ r.child_id \in ResetChildren(j)

C2_Witness ==
    \E j \in SeqJobs :
       /\ Succeeded(j)
       /\ \E r \in before[j] :
             /\ r.streak_count > 0
             /\ r.last_check_in = Null
             /\ r.child_id \in ResetChildren(j)

\* C3: a run leaves every record whose last_check_in is today or yesterday
\* as it was, and never lists it in resetChildren
C3_RecentUntouched ==
    \A j \in SeqJobs :
       (pc[j] = "done" /\ ReadSucceeded(j)) =>
          \A r \in before[j] :
             TodayOrYesterday(j, r)
             => /\ r \in child_progress
                /\ r.child_id \notin ResetChildren(j)

C3_Witness ==
    \E j \in SeqJobs :
       /\ Succeeded(j)
       /\ ResetChildren(j) # {}
       /\ \E r \in before[j] :
             /\ r.streak_count > 0
             /\ r.last_check_in # Null
             /\ isYesterdayOf(parseISO(r.last_check_in), today[j])
             /\ parseISO(r.last_check_in) = startOfDay(parseISO(r.last_check_in))

\* C4: after a successful run every record with streak_count > 0 has a
\* last_check_in that is present and falls on today or yesterday
C4_InvariantRestored ==
    \A j \in SeqJobs :
       Succeeded(j) =>
          \A r \in child_progress :
             r.streak_count > 0 => TodayOrYesterday(j, r)

\* C5 as stated: when the read succeeds and no row read qualifies, no update
\* is sent and the result is success with an empty list of identifiers
C5_EmptyListReturned ==
    \A j \in SeqJobs :
       (/\ pc[j] = "done"
        /\ ReadSucceeded(j)
        /\ \A i \in DOMAIN childProgress[j] :
              /\ childProgress[j][i].last_check_in # Null
              /\ daysElapsed(today[j], childProgress[j][i]) <= 1)
       => /\ writeCalls[j] = 0
          /\ result[j].success
          /\ HasResetChildren(j)
          /\ result[j].resetChildren = <<>>

\* C5 amended: when the read succeeds and no row read qualifies, no update is
\* sent and the result is success with the "no corrections" message and no
\* resetChildren field
C5_NoWriteNoList ==
    \A j \in SeqJobs :
       (/\ pc[j] = "done"
        /\ ReadSucceeded(j)
        /\ \A i \in DOMAIN childProgress[j] :
              /\ childProgress[j][i].last_check_in # Null
              /\ daysElapsed(today[j], childProgress[j][i]) <= 1)
       => /\ writeCalls[j] = 0
          /\ updateCall[j] = {}
          /\ result[j].success
          /\ result[j].message = <<"No streak count corrections needed">>
          /\ ~HasResetChildren(j)
          /\ child_progress = before[j]

C5_Witness ==
    \E j \in SeqJobs :
       /\ pc[j] = "done"
       /\ ReadSucceeded(j)
       /\ Len(childProgress[j]) = Cardinality(Children)
       /\ childrenToUpdate[j] = <<>>
       /\ result[j].success

\* C6: when the read fails the result is success = false with an error
\* message, no update is sent and every record is unchanged
C6_ReadFailure ==
    \A j \in SeqJobs :
       (pc[j] = "done" /\ ~ReadSucceeded(j))
       => /\ result[j].success = FALSE
          /\ "error" \in DOMAIN result[j]
          /\ writeCalls[j] = 0
          /\ updateCall[j] = {}
          /\ child_progress = before[j]

C6_Witness ==
    \E j \in SeqJobs :
       /\ pc[j] = "done"
       /\ fetchError[j] \in ErrorMessages
       /\ result[j].error = fetchError[j]
       /\ \E r \in child_progress : r.streak_count > 0 /\ r.last_check_in = Null

C8_Idempotent ==
    \A j \in SeqJobs :
       (/\ previous.success
        /\ ReadSucceeded(j)
        /\ isSameDay(previous.today, today[j]))
       => /\ childrenToUpdate[j] = <<>>
          /\ writeCalls[j] = 0
          /\ updateCall[j] = {}
          /\ ~HasResetChildren(j)
          /\ child_progress = before[j]

C8_Witness ==
    \E j \in SeqJobs :
       /\ Succeeded(j)
       /\ ReadSucceeded(j)
       /\ previous.success
       /\ previous.resetChildren # {}
       /\ isSameDay(previous.today, today[j])

\* C9: a step changes a record only by setting a positive streak_count to 0:
\* no record is created or deleted, no other column changes, a record that
\* had streak_count 0 is never a target, and a run makes one read and at
\* most one write
C9_OnlyZeroing ==
    /\ [][/\ Ids(child_progress') = Ids(child_progress)
          /\ Cardinality(child_progress') = Cardinality(child_progress)
          /\ \A r \in child_progress :
                \/ r \in child_progress'
                \/ /\ r.streak_count > 0
                   /\ [r EXCEPT !.streak_count = 0] \in child_progress']_vars
    /\ [](\A j \in SeqJobs :
             /\ readCalls[j] <= 1
             /\ writeCalls[j] <= 1
             /\ pc[j] # "idle" => readCalls[j] = 1
             /\ \A c \in updateCall[j] :
                   \E r \in before[j] : r.child_id = c /\ r.streak_count > 0)

C9_Witness ==
    \E j \in SeqJobs :
       /\ Succeeded(j)
       /\ writeCalls[j] = 1
       /\ \E r \in before[j] : r.streak_count = 0 /\ r \in child_progress
       /\ \E r \in before[j] : r.streak_count > 0 /\ r \notin child_progress

----------------------------------------------------------------------------
(* two invocations, the check-in flow, malformed dates *)

\* the table one successful invocation run alone leaves behind
AfterOneRun(table, todayDate) ==
    {IF /\ r.streak_count > 0
        /\ \/ r.last_check_in = Null
           \/ daysElapsed(todayDate, r) > 1
     THEN [r EXCEPT !.streak_count = 0]
     ELSE r : r \in table}

\* C11: when two invocations that overlap in any order on the same day have
\* both returned, the table is what each successful one would have left had it
\* run alone
C11_ConcurrentSameAsAlone ==
    (\A j \in Jobs : pc[j] = "done") =>
       \A j \in Jobs :
          Succeeded(j) => child_progress = AfterOneRun(before[j], today[j])

C11_Witness ==
    /\ \A j \in Jobs :
          /\ Succeeded(j)
          /\ writeCalls[j] = 1
          /\ updateCall[j] # {}
          /\ before[j] # child_progress
    /\ \E r \in child_progress : r.streak_count > 0

\* C12: the job's update never sets to 0 the streak_count of a record whose
\* last_check_in is today when the update is applied, also when the check-in
\* flow writes between the job's read and its write
C12_FreshCheckInKept ==
    [][\A j \in SeqJobs :
          (pc[j] = "updating" /\ pc'[j] = "done") =>
             \A r \in child_progress :
                (/\ r.streak_count > 0
                 /\ r.last_check_in # Null
                 /\ isSameDay(parseISO(r.last_check_in), now))
                => r \in child_progress']_vars

HasMalformed(rows) ==
    \E i \in DOMAIN rows :
       /\ Len(rows[i].last_check_in) = 2
       /\ rows[i].last_check_in[2] >= TicksPerDay

\* C13: when a row read has a last_check_in that does not parse, the run
\* returns success = false with an error, sends no update, and the rows it had
\* classified before the throw keep their positive streak_count
C13_MalformedAborts ==
    \A j \in SeqJobs :
       (pc[j] = "done" /\ HasMalformed(childProgress[j]))
       => /\ result[j].success = FALSE
          /\ "error" \in DOMAIN result[j]
          /\ result[j].error = "Invalid time value"
          /\ writeCalls[j] = 0
          /\ updateCall[j] = {}
          /\ child_progress = before[j]
          /\ \A c \in Range(childrenToUpdate[j]) : StreakNow(c) > 0

C13_Witness ==
    \E j \in SeqJobs :
       /\ pc[j] = "done"
       /\ HasMalformed(childProgress[j])
       /\ childrenToUpdate[j] # <<>>
       /\ ~result[j].success

----------------------------------------------------------------------------
(* the parent service: fetchParentInfoById, createParentInfo, saveParentInfo *)

nonParentVars == <<jobVars, tabVars>>

\* parentCache module
getCachedParentInfo(userId) == parentCache[userId]

hasErrorLock(userId) == userId \in errorLock

setErrorLock(locks, userId) == locks \cup {userId}

updateParentCache(cache, userId, info) == [cache EXCEPT ![userId] = info]

\* clearParentCache(userId) drops the user's error lock; whether it also drops
\* the user's cached entry is not visible from its caller
clearParentCache(cache, locks, userId) ==
    {[cache |-> cache, locks |-> locks \ {userId}],
     [cache |-> [cache EXCEPT ![userId] = Nul], locks |-> locks \ {userId}]}

CacheWithoutLockCheck(userId) == getCachedParentInfo(userId) # Nul

\* lines 206-216: the lock is active or the cache has an entry, so the cache
\* answers and no query is sent
AnswersFromCache(userId) ==
    hasErrorLock(userId) \/ getCachedParentInfo(userId) # Nul

\* lines 270-287 (createParentInfo) and 208-256 (fetchParentInfoById): what
\* the caller does with the value fetchParentInfoById returns
AfterFetch(c, v) ==
    IF c.op = "fetch" THEN [c EXCEPT !.pc = "done", !.ret = v]
    ELSE IF v # Nul THEN [c EXCEPT !.pc = "done", !.ret = v]
    ELSE [c EXCEPT !.pc = "inserting"]

\* lines 203-223: entry of fetchParentInfoById
EnterFetch(c) ==
    IF AnswersFromCache(c.userId)
    THEN AfterFetch(c, getCachedParentInfo(c.userId))
    ELSE [c EXCEPT !.pc = "querying"]

Free(k) == calls[k].pc \in {"idle", "done"}

\* fetchParentInfoById(userId) is called
CallFetch(k, userId) ==
    /\ Free(k)
    /\ calls' = [calls EXCEPT ![k] =
                    EnterFetch([IdleCall EXCEPT !.op = "fetch", !.userId = userId])]
    /\ UNCHANGED <<parents, parentCache, errorLock, session>>
    /\ UNCHANGED nonParentVars

\* lines 232-250: the query answers with the row, or with no row
QueryAnswers(k) ==
    /\ calls[k].pc = "querying"
    /\ LET u == calls[k].userId
           data == parents[u]
       IN  /\ parentCache' = IF data # Nul
                             THEN updateParentCache(parentCache, u, data)
                             ELSE parentCache
           /\ calls' = [calls EXCEPT ![k] =
                           AfterFetch([calls[k] EXCEPT !.outcome = "ok"], data)]
    /\ UNCHANGED <<parents, errorLock, session>>
    /\ UNCHANGED nonParentVars

\* lines 225-230: the query answers with an error
QueryError(k) ==
    /\ calls[k].pc = "querying"
    /\ LET u == calls[k].userId
       IN  /\ errorLock' = setErrorLock(errorLock, u)
           /\ calls' = [calls EXCEPT ![k] =
                           AfterFetch([calls[k] EXCEPT !.outcome = "error"],
                                      getCachedParentInfo(u))]
    /\ UNCHANGED <<parents, parentCache, session>>
    /\ UNCHANGED nonParentVars

\* lines 251-256: the query rejects
QueryThrows(k) ==
    /\ calls[k].pc = "querying"
    /\ LET u == calls[k].userId
       IN  /\ errorLock' = setErrorLock(errorLock, u)
           /\ calls' = [calls EXCEPT ![k] =
                           AfterFetch([calls[k] EXCEPT !.outcome = "threw"],
                                      getCachedParentInfo(u))]
    /\ UNCHANGED <<parents, parentCache, session>>
    /\ UNCHANGED nonParentVars

\* lines 262-287: createParentInfo(user) is called
CallCreate(k, userId, name) ==
    /\ Free(k)
    /\ LET c == [IdleCall EXCEPT !.op = "create", !.userId = userId, !.name = name]
       IN  calls' = [calls EXCEPT ![k] =
                        IF userId = Missing \/ name = Missing
                        THEN [c EXCEPT !.pc = "done", !.ret = Nul]
                        ELSE EnterFetch(c)]
    /\ UNCHANGED <<parents, parentCache, errorLock, session>>
    /\ UNCHANGED nonParentVars

\* lines 285-308: the insert succeeds (the id is the table's key)
InsertOk(k) ==
    /\ calls[k].pc = "inserting"
    /\ parents[calls[k].userId] = Nul
    /\ LET u == calls[k].userId
           parentInfo == calls[k].name
       IN  /\ parents' = [parents EXCEPT ![u] = parentInfo]
           /\ \E cleared \in clearParentCache(
                                updateParentCache(parentCache, u, parentInfo),
                                errorLock, u) :
                 /\ parentCache' = cleared.cache
                 /\ errorLock' = cleared.locks
           /\ calls' = [calls EXCEPT ![k] =
                           [calls[k] EXCEPT !.pc = "done", !.ret = parentInfo,
                                            !.outcome = "ok"]]
    /\ UNCHANGED session
    /\ UNCHANGED nonParentVars

\* lines 289-292 and 309-312: the insert answers with an error, or rejects
InsertFails(k) ==
    /\ calls[k].pc = "inserting"
    /\ \E o \in {"error", "threw"} :
          calls' = [calls EXCEPT ![k] =
                       [calls[k] EXCEPT !.pc = "done", !.ret = Nul, !.outcome = o]]
    /\ UNCHANGED <<parents, parentCache, errorLock, session>>
    /\ UNCHANGED nonParentVars

SessionOfAnyUser(sess, id) == sess # Nul

\* lines 337-346: there is a session and it is the session of info.id
SessionAllows(sess, id) == sess # Nul /\ sess = id

\* lines 318-328: saveParentInfo(info) is called
CallSave(k, id, name) ==
    /\ Free(k)
    /\ LET c == [IdleCall EXCEPT !.op = "save", !.userId = id, !.name = name]
       IN  calls' = [calls EXCEPT ![k] =
                        IF id = Missing
                        THEN [c EXCEPT !.pc = "done", !.ret = "false"]
                        ELSE [c EXCEPT !.pc = "gettingSession"]]
    /\ UNCHANGED <<parents, parentCache, errorLock, session>>
    /\ UNCHANGED nonParentVars

\* lines 328-369: getSession answers; the update is sent when the session is
\* the one of info.id and a field is given
SessionAnswers(k) ==
    /\ calls[k].pc = "gettingSession"
    /\ LET c == [calls[k] EXCEPT !.outcome = "ok"]
       IN  calls' = [calls EXCEPT ![k] =
                        IF ~SessionAllows(session, c.userId)
                        THEN [c EXCEPT !.pc = "done", !.ret = "false"]
                        ELSE IF c.name = Missing
                        THEN [c EXCEPT !.pc = "done", !.ret = "true"]
                        ELSE [c EXCEPT !.pc = "updating"]]
    /\ UNCHANGED <<parents, parentCache, errorLock, session>>
    /\ UNCHANGED nonParentVars

\* lines 329-332 and 382-385: getSession answers with an error, or rejects
SessionFails(k) ==
    /\ calls[k].pc = "gettingSession"
    /\ \E o \in {"error", "threw"} :
          calls' = [calls EXCEPT ![k] =
                       [calls[k] EXCEPT !.pc = "done", !.ret = "false", !.outcome = o]]
    /\ UNCHANGED <<parents, parentCache, errorLock, session>>
    /\ UNCHANGED nonParentVars

\* lines 365-381: the update is applied; the cache takes info
SaveUpdateOk(k) ==
    /\ calls[k].pc = "updating"
    /\ LET id == calls[k].userId
       IN  /\ parents' = IF parents[id] # Nul
                         THEN [parents EXCEPT ![id] = calls[k].name]
                         ELSE parents
           /\ parentCache' = updateParentCache(parentCache, id, calls[k].name)
    /\ calls' = [calls EXCEPT ![k] =
                    [calls[k] EXCEPT !.pc = "done", !.ret = "true", !.outcome = "ok"]]
    /\ UNCHANGED <<errorLock, session>>
    /\ UNCHANGED nonParentVars

\* lines 371-374 and 382-385: the update answers with an error, or rejects
SaveUpdateFails(k) ==
    /\ calls[k].pc = "updating"
    /\ \E o \in {"error", "threw"} :
          calls' = [calls EXCEPT ![k] =
                       [calls[k] EXCEPT !.pc = "done", !.ret = "false", !.outcome = o]]
    /\ UNCHANGED <<parents, parentCache, errorLock, session>>
    /\ UNCHANGED nonParentVars

\* the user signs in or out
SessionChanges ==
    /\ \E s \in Users \cup {Nul} : session' = s /\ s # session
    /\ UNCHANGED <<parents, parentCache, errorLock, calls>>
    /\ UNCHANGED nonParentVars

\* an error lock runs out
ErrorLockExpires ==
    /\ \E u \in errorLock : errorLock' = errorLock \ {u}
    /\ UNCHANGED <<parents, parentCache, session, calls>>
    /\ UNCHANGED nonParentVars

InitParent ==
    /\ JobIdle
    /\ TabIdle
    /\ parents \in [Users -> Names \cup {Nul}]
    /\ parentCache = [u \in Users |-> Nul]
    /\ errorLock = {}
    /\ session \in Users \cup {Nul}
    /\ calls = [k \in Slots |-> IdleCall]

NextParent ==
    \/ \E k \in Slots, u \in Users : CallFetch(k, u)
    \/ \E k \in Slots : QueryAnswers(k)
    \/ \E k \in Slots : QueryError(k)
    \/ \E k \in Slots : QueryThrows(k)
    \/ \E k \in WriteSlots, u \in Users \cup {Missing}, n \in Names \cup {Missing} :
          CallCreate(k, u, n)
    \/ \E k \in Slots : InsertOk(k)
    \/ \E k \in Slots : InsertFails(k)
    \/ \E k \in WriteSlots, u \in Users \cup {Missing}, n \in Names \cup {Missing} :
          CallSave(k, u, n)
    \/ \E k \in Slots : SessionAnswers(k)
    \/ \E k \in Slots : SessionFails(k)
    \/ \E k \in Slots : SaveUpdateOk(k)
    \/ \E k \in Slots : SaveUpdateFails(k)
    \/ SessionChanges
    \/ ErrorLockExpires

SpecParent == InitParent /\ [][NextParent]_vars

Stepped(k) == calls'[k] # calls[k]

C15_NoInsertWhenExists ==
    [][\A k \in Slots :
          (calls'[k].pc = "inserting" /\ calls[k].pc # "inserting")
          => parents[calls'[k].userId] = Nul]_vars

\* C16: fetchParentInfoById sends no query while the user's error lock is
\* active or the cache has the user's entry; an error answer or a rejection
\* sets the user's lock and returns the cached entry or null; only an answer
\* with a row changes the cache
C16_FetchGuarded ==
    [][\A k \in Slots :
          /\ (calls'[k].pc = "querying" /\ calls[k].pc # "querying")
             => /\ calls'[k].userId \notin errorLock
                /\ parentCache[calls'[k].userId] = Nul
          /\ (calls[k].pc = "querying" /\ calls'[k].outcome \in {"error", "threw"})
             => /\ calls[k].userId \in errorLock'
                /\ parentCache' = parentCache
                /\ calls[k].op = "fetch"
                      => /\ calls'[k].pc = "done"
                         /\ calls'[k].ret = parentCache[calls[k].userId]
          /\ (/\ Stepped(k)
              /\ calls[k].pc = "querying" \/ (Free(k) /\ calls'[k].op = "fetch")
              /\ parentCache' # parentCache)
             => /\ calls[k].pc = "querying"
                /\ calls'[k].outcome = "ok"
                /\ parents[calls[k].userId] # Nul
                /\ parentCache' = [parentCache EXCEPT
                                      ![calls[k].userId] = parents[calls[k].userId]]]_vars

C16_Witness ==
    \E k \in Slots :
       /\ calls[k].op = "fetch"
       /\ calls[k].pc = "done"
       /\ calls[k].outcome = "error"
       /\ calls[k].ret = Nul
       /\ calls[k].userId \in errorLock
       /\ parents[calls[k].userId] # Nul

-----------------------------------------------------------------------------
(* ChildProfilesTab *)

nonTabVars == <<jobVars, parentVars>>

Min(a, b) == IF a < b THEN a ELSE b

\* lines 32-37: the condition of fetchProfiles, with the ref as the cleanup
\* of the previous run left it
ShouldFetch(u, cm) ==
    u # Nul /\ ~hasInitialFetch /\ ~fetchInProgress /\ cm

\* lines 30-62: the effect runs after a render whose dependencies changed;
\* the cleanup of the previous run (lines 59-61) runs first
RunEffect ==
    /\ mounted
    /\ effect.pending
    /\ LET cm == IF effect.ran THEN FALSE ELSE componentMounted
       IN  /\ componentMounted' = cm
           /\ IF ShouldFetch(user, cm)
              THEN /\ fetchInProgress' = TRUE
                   /\ fetchProfiles' = "awaiting"
                   /\ effectFetches' = Min(effectFetches + 1, MaxEffectFetches)
              ELSE UNCHANGED <<fetchInProgress, fetchProfiles, effectFetches>>
    /\ effect' = [pending |-> FALSE, ran |-> TRUE]
    /\ UNCHANGED <<mounted, user, hasInitialFetch, deleteDialogOpen,
                   profileToDelete, confirmDelete, editChildRelationship,
                   relationshipValue, handleSaveRelationship, handled>>
    /\ UNCHANGED nonTabVars

\* line 62: the context hands a new user or a new refreshChildProfiles
DepsChange ==
    /\ mounted
    /\ \E u \in Users \cup {Nul} : user' = u
    /\ effect' = [effect EXCEPT !.pending = TRUE]
    /\ UNCHANGED <<mounted, componentMounted, hasInitialFetch, fetchInProgress,
                   fetchProfiles, deleteDialogOpen, profileToDelete,
                   confirmDelete, editChildRelationship, relationshipValue,
                   handleSaveRelationship, effectFetches, handled>>
    /\ UNCHANGED nonTabVars

\* lines 42-52: refreshChildProfiles resolves
FetchResolve ==
    /\ fetchProfiles = "awaiting"
    /\ fetchProfiles' = "idle"
    /\ hasInitialFetch' = IF componentMounted THEN TRUE ELSE hasInitialFetch
    /\ fetchInProgress' = IF componentMounted THEN FALSE ELSE fetchInProgress
    /\ UNCHANGED <<mounted, user, effect, componentMounted, deleteDialogOpen,
                   profileToDelete, confirmDelete, editChildRelationship,
                   relationshipValue, handleSaveRelationship, effectFetches,
                   handled>>
    /\ UNCHANGED nonTabVars

\* lines 46-52: refreshChildProfiles rejects
FetchReject ==
    /\ fetchProfiles = "awaiting"
    /\ fetchProfiles' = "idle"
    /\ fetchInProgress' = IF componentMounted THEN FALSE ELSE fetchInProgress
    /\ UNCHANGED <<mounted, user, effect, componentMounted, hasInitialFetch,
                   deleteDialogOpen, profileToDelete, confirmDelete,
                   editChildRelationship, relationshipValue,
                   handleSaveRelationship, effectFetches, handled>>
    /\ UNCHANGED nonTabVars

\* lines 59-61: the component unmounts and the cleanup of the last run runs
Unmount ==
    /\ mounted
    /\ mounted' = FALSE
    /\ componentMounted' = IF effect.ran THEN FALSE ELSE componentMounted
    /\ effect' = [effect EXCEPT !.pending = FALSE]
    /\ UNCHANGED <<user, hasInitialFetch, fetchInProgress, fetchProfiles,
                   deleteDialogOpen, profileToDelete, confirmDelete,
                   editChildRelationship, relationshipValue,
                   handleSaveRelationship, effectFetches, handled>>
    /\ UNCHANGED nonTabVars

\* lines 64-67
handleDeleteProfile(id) ==
    /\ mounted
    /\ profileToDelete' = id
    /\ deleteDialogOpen' = TRUE
    /\ UNCHANGED <<mounted, user, effect, componentMounted, hasInitialFetch,
                   fetchInProgress, fetchProfiles, confirmDelete,
                   editChildRelationship, relationshipValue,
                   handleSaveRelationship, effectFetches, handled>>
    /\ UNCHANGED nonTabVars

\* line 180: the dialog is dismissed
CloseDeleteDialog ==
    /\ mounted
    /\ deleteDialogOpen
    /\ deleteDialogOpen' = FALSE
    /\ UNCHANGED <<mounted, user, effect, componentMounted, hasInitialFetch,
                   fetchInProgress, fetchProfiles, profileToDelete,
                   confirmDelete, editChildRelationship, relationshipValue,
                   handleSaveRelationship, effectFetches, handled>>
    /\ UNCHANGED nonTabVars

\* lines 69-72: confirmDelete is called with the user of its render
ConfirmDelete ==
    /\ mounted
    /\ deleteDialogOpen
    /\ confirmDelete.pc = "idle"
    /\ profileToDelete # Nul
    /\ confirmDelete' = [pc |-> "deleting", user |-> user]
    /\ UNCHANGED <<mounted, user, effect, componentMounted, hasInitialFetch,
                   fetchInProgress, fetchProfiles, deleteDialogOpen,
                   profileToDelete, editChildRelationship, relationshipValue,
                   handleSaveRelationship, effectFetches, handled>>
    /\ UNCHANGED nonTabVars

\* a state setter of an unmounted component does nothing
SetState(old, new) == IF mounted THEN new ELSE old

\* lines 78-82 and 107-110: the condition on which the handlers refresh
ShouldRefresh(h) == h.user # Nul /\ componentMounted

Handled(op, h, ok) ==
    [op |-> op, ok |-> ok, mountedThen |-> mounted, hadUser |-> h.user # Nul,
     refreshed |-> ok /\ ShouldRefresh(h)]

\* lines 72-82 and 90-93: deleteChildProfile resolves
DeleteResolve ==
    /\ confirmDelete.pc = "deleting"
    /\ handled' = Handled("delete", confirmDelete, TRUE)
    /\ IF ShouldRefresh(confirmDelete)
       THEN /\ hasInitialFetch' = FALSE
            /\ confirmDelete' = [confirmDelete EXCEPT !.pc = "refreshing"]
            /\ UNCHANGED <<deleteDialogOpen, profileToDelete>>
       ELSE /\ deleteDialogOpen' = SetState(deleteDialogOpen, FALSE)
            /\ profileToDelete' = SetState(profileToDelete, Nul)
            /\ confirmDelete' = NoHandler
            /\ UNCHANGED hasInitialFetch
    /\ UNCHANGED <<mounted, user, effect, componentMounted, fetchInProgress,
                   fetchProfiles, editChildRelationship, relationshipValue,
                   handleSaveRelationship, effectFetches>>
    /\ UNCHANGED nonTabVars

\* lines 83-93: deleteChildProfile rejects
DeleteReject ==
    /\ confirmDelete.pc = "deleting"
    /\ handled' = Handled("delete", confirmDelete, FALSE)
    /\ deleteDialogOpen' = SetState(deleteDialogOpen, FALSE)
    /\ profileToDelete' = SetState(profileToDelete, Nul)
    /\ confirmDelete' = NoHandler
    /\ UNCHANGED <<mounted, user, effect, componentMounted, hasInitialFetch,
                   fetchInProgress, fetchProfiles, editChildRelationship,
                   relationshipValue, handleSaveRelationship, effectFetches>>
    /\ UNCHANGED nonTabVars

\* lines 81-93: the refresh after the deletion resolves or rejects
DeleteRefreshSettles ==
    /\ confirmDelete.pc = "refreshing"
    /\ deleteDialogOpen' = SetState(deleteDialogOpen, FALSE)
    /\ profileToDelete' = SetState(profileToDelete, Nul)
    /\ confirmDelete' = NoHandler
    /\ UNCHANGED <<mounted, user, effect, componentMounted, hasInitialFetch,
                   fetchInProgress, fetchProfiles, editChildRelationship,
                   relationshipValue, handleSaveRelationship, effectFetches,
                   handled>>
    /\ UNCHANGED nonTabVars

\* lines 129-132
handleEditRelationship(id, relationship) ==
    /\ mounted
    /\ editChildRelationship' = id
    /\ relationshipValue' = relationship
    /\ UNCHANGED <<mounted, user, effect, componentMounted, hasInitialFetch,
                   fetchInProgress, fetchProfiles, deleteDialogOpen,
                   profileToDelete, confirmDelete, handleSaveRelationship,
                   effectFetches, handled>>
    /\ UNCHANGED nonTabVars

\* line 188: the relationship is typed in the dialog
setRelationshipValue(v) ==
    /\ mounted
    /\ editChildRelationship # Nul
    /\ v # relationshipValue
    /\ relationshipValue' = v
    /\ UNCHANGED <<mounted, user, effect, componentMounted, hasInitialFetch,
                   fetchInProgress, fetchProfiles, deleteDialogOpen,
                   profileToDelete, confirmDelete, editChildRelationship,
                   handleSaveRelationship, effectFetches, handled>>
    /\ UNCHANGED nonTabVars

\* lines 97-100: handleSaveRelationship is called with the user of its render
HandleSaveRelationship ==
    /\ mounted
    /\ handleSaveRelationship.pc = "idle"
    /\ editChildRelationship # Nul
    /\ relationshipValue # ""
    /\ handleSaveRelationship' = [pc |-> "saving", user |-> user]
    /\ UNCHANGED <<mounted, user, effect, componentMounted, hasInitialFetch,
                   fetchInProgress, fetchProfiles, deleteDialogOpen,
                   profileToDelete, confirmDelete, editChildRelationship,
                   relationshipValue, effectFetches, handled>>
    /\ UNCHANGED nonTabVars

\* lines 100-110 and 118-121: setRelationshipToParent resolves
SaveResolve ==
    /\ handleSaveRelationship.pc = "saving"
    /\ handled' = Handled("save", handleSaveRelationship, TRUE)
    /\ IF ShouldRefresh(handleSaveRelationship)
       THEN /\ handleSaveRelationship' =
                  [handleSaveRelationship EXCEPT !.pc = "refreshing"]
            /\ UNCHANGED <<editChildRelationship, relationshipValue>>
       ELSE /\ editChildRelationship' = SetState(editChildRelationship, Nul)
            /\ relationshipValue' = SetState(relationshipValue, "")
            /\ handleSaveRelationship' = NoHandler
    /\ UNCHANGED <<mounted, user, effect, componentMounted, hasInitialFetch,
                   fetchInProgress, fetchProfiles, deleteDialogOpen,
                   profileToDelete, confirmDelete, effectFetches>>
    /\ UNCHANGED nonTabVars

\* lines 111-121: setRelationshipToParent rejects
SaveReject ==
    /\ handleSaveRelationship.pc = "saving"
    /\ handled' = Handled("save", handleSaveRelationship, FALSE)
    /\ editChildRelationship' = SetState(editChildRelationship, Nul)
    /\ relationshipValue' = SetState(relationshipValue, "")
    /\ handleSaveRelationship' = NoHandler
    /\ UNCHANGED <<mounted, user, effect, componentMounted, hasInitialFetch,
                   fetchInProgress, fetchProfiles, deleteDialogOpen,
                   profileToDelete, confirmDelete, effectFetches>>
    /\ UNCHANGED nonTabVars

\* lines 109-121: the refresh after the save resolves or rejects
SaveRefreshSettles ==
    /\ handleSaveRelationship.pc = "refreshing"
    /\ editChildRelationship' = SetState(editChildRelationship, Nul)
    /\ relationshipValue' = SetState(relationshipValue, "")
    /\ handleSaveRelationship' = NoHandler
    /\ UNCHANGED <<mounted, user, effect, componentMounted, hasInitialFetch,
                   fetchInProgress, fetchProfiles, deleteDialogOpen,
                   profileToDelete, confirmDelete, effectFetches, handled>>
    /\ UNCHANGED nonTabVars

\* the component is rendered for the first time, with or without a user
InitTab ==
    /\ JobIdle
    /\ ParentIdle
    /\ mounted = TRUE
    /\ user \in Users \cup {Nul}
    /\ TabFresh

NextTab ==
    \/ RunEffect
    \/ DepsChange
    \/ FetchResolve
    \/ FetchReject
    \/ Unmount
    \/ \E id \in Profiles : handleDeleteProfile(id)
    \/ CloseDeleteDialog
    \/ ConfirmDelete
    \/ DeleteResolve
    \/ DeleteReject
    \/ DeleteRefreshSettles
    \/ \E id \in Profiles, r \in Relationships \cup {""} :
          handleEditRelationship(id, r)
    \/ \E v \in Relationships \cup {""} : setRelationshipValue(v)
    \/ HandleSaveRelationship
    \/ SaveResolve
    \/ SaveReject
    \/ SaveRefreshSettles

SpecTab == InitTab /\ [][NextTab]_vars

\* the user has an id, the effect has run since the id came (the fetch is
\* sent within the run of the effect), and the component is still mounted
UserAvailable == mounted /\ user # Nul /\ ~effect.pending

\* C17: while the component stays mounted, the fetch of the effect is made
\* once a user id is there, also when the id came with a later run of the
\* effect, and it is made at most once after it succeeded
C17_EffectFetches ==
    /\ UserAvailable => effectFetches > 0
    /\ hasInitialFetch => effectFetches <= 1

\* C18: componentMounted is false only after the component unmounted, so
\* every deleteChildProfile and setRelationshipToParent that succeeded while
\* the component was mounted with a user id was followed by the refresh
C18_FlagFollowsMount ==
    /\ ~componentMounted => ~mounted
    /\ (handled.ok /\ handled.mountedThen /\ handled.hadUser) => handled.refreshed
====
